---- MODULE Spec2Model ----
(***************************************************************************)
(* Model of the provable requantization layer (zkml/src/layers/requant.rs) *)
(* and of the node-level claim routing (zkml/src/layers/provable/mod.rs).  *)
(*                                                                         *)
(* Three specifications share the module's variables:                      *)
(*   Spec         the Requant arithmetic: op, prep_for_requantize,         *)
(*                lookup_witness, recombine_claims, the column count       *)
(*   SpecRouting  NodeCtx::claims_for_node and NodeCtx::input_claims       *)
(*   SpecProof    Requant::prove_step, LayerCtx::verify and                *)
(*                RequantCtx::verify_requant over black-box backends       *)
(* Sequences are 1-based: column 0 of the source is column 1 here.         *)
(***************************************************************************)
EXTENDS Integers, Sequences, FiniteSets, TLC

VARIABLES
    requant,           \* the Requant value: right_shift, range, after_range
    input,             \* the input tensor's data (Element = i128)
    debug_assertions,  \* whether the build compiles debug_assert! and overflow checks
    pc,                \* the operation that ran last
    ret,               \* what it returned
    nodes,             \* the graph's NodeCtx values, node id n at position n + 1
    claims_by_node,    \* HashMap<NodeId, Vec<Claim>>: the claims on each node's inputs
    output_claims,     \* the claims on the model's output tensors
    gen,               \* LookupWitnessGen: the lookup-witness aggregator
    prover,            \* Prover: transcript, proof stream, witness-commitment claims
    verifier,          \* Verifier: transcript, challenge storage, witness-commitment claims
    last_claim         \* the downstream claim about the layer's output

arithVars == <<requant, input, debug_assertions>>
routingVars == <<nodes, claims_by_node, output_claims>>
proofVars == <<gen, prover, verifier, last_claim>>
vars == <<requant, input, debug_assertions, pc, ret, nodes, claims_by_node, output_claims,
         gen, prover, verifier, last_claim>>

(***************************************************************************)
(* Bounds of the model.                                                    *)
(***************************************************************************)
MaxShift == 2      \* right_shift ranges over 0..MaxShift
MaxRange == 2      \* range ranges over 1..MaxRange
MaxLogAfter == 2   \* after_range ranges over 2^1..2^MaxLogAfter
MaxElem == 3       \* tensor elements range over -MaxElem..MaxElem
MaxLen == 3        \* tensors hold 1..MaxLen elements
MaxArity == 2      \* nodes have 1..MaxArity inputs; the model has 0..MaxArity outputs

(***************************************************************************)
(* The field.  The source is generic in E: ExtensionField whose lift of a  *)
(* negative integer v is p - |v|; the model computes in Z_p for a prime p  *)
(* whose squares fit the model checker's integers.                         *)
(***************************************************************************)
FieldModulus == 46337

ToField(v) == v % FieldModulus
FromU64(n) == n % FieldModulus
FAdd(a, b) == (a + b) % FieldModulus
FSub(a, b) == (a - b) % FieldModulus
FMul(a, b) == (a * b) % FieldModulus

(***************************************************************************)
(* quantization::{MIN, MAX, RANGE}: process-wide constants of the crate.   *)
(***************************************************************************)
QuantRange == 4
QuantMin == -(QuantRange \div 2)
QuantMax == (QuantRange \div 2) - 1

(***************************************************************************)
(* Integer helpers of the standard library and of gkr::util.               *)
(***************************************************************************)
Pow2(n) == 2 ^ n

\* x >> n on a signed integer: the arithmetic shift rounds towards -infinity
Shr(x, n) == x \div Pow2(n)

\* x << n
Shl(x, n) == x * Pow2(n)

RECURSIVE ceil_log2(_)
\* the least k with 2^k >= x
ceil_log2(x) == IF x <= 1 THEN 0 ELSE 1 + ceil_log2((x + 1) \div 2)

RECURSIVE ilog2(_)
\* the greatest k with 2^k <= x, for x >= 1
ilog2(x) == IF x <= 1 THEN 0 ELSE 1 + ilog2(x \div 2)

next_power_of_two(x) == Pow2(ceil_log2(x))

RECURSIVE BitAndNat(_, _)
\* bitwise AND of two non-negative integers
BitAndNat(x, m) ==
    IF x = 0 \/ m = 0 THEN 0
    ELSE ((x % 2) * (m % 2)) + 2 * BitAndNat(x \div 2, m \div 2)

\* x & m for a two's-complement x and a mask m >= 0: only the bits of x below
\* the mask's width matter, and x % 2^k are those bits for negative x too
BitAnd(x, m) == BitAndNat(x % next_power_of_two(m + 1), m)

RECURSIVE IntPow(_, _)
\* usize::pow
IntPow(b, e) == IF e = 0 THEN 1 ELSE b * IntPow(b, e - 1)

(***************************************************************************)
(* Faulty variants of the operations are defined next to the originals;    *)
(* each differs from the source in one place and is used to show that the  *)
(* property it is paired with tells the two apart.                         *)
(***************************************************************************)
\* apply without the subtraction of the shifted offset
apply_without_offset(rq, e) ==
    LET max_bit == Shl(rq.range, 1)
        tmp0 == e + max_bit
        res == Shr(tmp0, rq.right_shift)
    IN  IF tmp0 < 0
        THEN [tag |-> "Panic", value |-> 0]
        ELSE IF ~(res >= QuantMin /\ res <= QuantMax)
        THEN [tag |-> "OutOfRange", value |-> res]
        ELSE [tag |-> "Ok", value |-> res]

(***************************************************************************)
(* Requant::apply (the integer path; multiplier = None).                   *)
(***************************************************************************)
apply(rq, e) ==
    LET max_bit == Shl(rq.range, 1)
        tmp0 == e + max_bit
        tmp == Shr(tmp0, rq.right_shift)
        res == tmp - Shr(max_bit, rq.right_shift)
    IN  IF tmp0 < 0
        THEN [tag |-> "Panic", value |-> 0]
        ELSE IF ~(res >= QuantMin /\ res <= QuantMax)
        THEN [tag |-> "OutOfRange", value |-> res]
        ELSE [tag |-> "Ok", value |-> res]

RECURSIVE CountOutOfRange(_, _)
CountOutOfRange(rq, data) ==
    IF data = <<>> THEN 0
    ELSE (IF apply(rq, Head(data)).tag = "OutOfRange" THEN 1 ELSE 0)
         + CountOutOfRange(rq, Tail(data))

\* op clamping the out-of-range results into the quantized range
op_clamped(rq, data) ==
    IF \E i \in 1..Len(data) : apply(rq, data[i]).tag = "Panic"
    THEN [status |-> "Panic", data |-> <<>>, shape |-> 0, not_ok_count |-> 0]
    ELSE [status |-> "Ok",
          data |-> [i \in 1..Len(data) |->
                       LET v == apply(rq, data[i]).value
                       IN  IF v < QuantMin THEN QuantMin
                           ELSE IF v > QuantMax THEN QuantMax ELSE v],
          shape |-> Len(data),
          not_ok_count |-> CountOutOfRange(rq, data)]

(***************************************************************************)
(* Requant::op: apply mapped over the tensor; the shape is the input's.    *)
(***************************************************************************)
op(rq, data) ==
    IF \E i \in 1..Len(data) : apply(rq, data[i]).tag = "Panic"
    THEN [status |-> "Panic", data |-> <<>>, shape |-> 0, not_ok_count |-> 0]
    ELSE [status |-> "Ok",
          data |-> [i \in 1..Len(data) |-> apply(rq, data[i]).value],
          shape |-> Len(data),
          not_ok_count |-> CountOutOfRange(rq, data)]

(***************************************************************************)
(* The column count of prep_for_requantize, lookup_witness and             *)
(* verify_requant: (right_shift - 1) / ceil_log2(after_range) + 2 on usize *)
(* (the division truncates).  right_shift = 0 underflows the subtraction.  *)
(***************************************************************************)
SubUnderflows(rq) == rq.right_shift = 0

\* the column count with the division rounded up
num_columns_rounded_up(rq) ==
    ((rq.right_shift - 1 + ceil_log2(rq.after_range) - 1) \div ceil_log2(rq.after_range)) + 2

\* the wrapped count taken as allocatable whatever the chunk width
ColumnCountAbortsOnlyChecked(rq, overflow_checks) == SubUnderflows(rq) /\ overflow_checks

\* the count when right_shift - 1 has wrapped to usize::MAX = 2^64 - 1 (a build
\* without overflow checks): usize::MAX / 1 + 2 wraps once more, to 1
WrappedToOneColumn(rq) == SubUnderflows(rq) /\ ceil_log2(rq.after_range) = 1

\* the column count cannot be formed: right_shift - 1 aborts where overflow is
\* checked, and where it wraps with ceil_log2(after_range) >= 2 the count is
\* (2^64 - 1) / b + 2 >= 2^58 vectors, which the allocation aborts on
ColumnCountAborts(rq, overflow_checks) ==
    SubUnderflows(rq) /\ (overflow_checks \/ ~WrappedToOneColumn(rq))

num_columns(rq) ==
    IF WrappedToOneColumn(rq) THEN 1
    ELSE ((rq.right_shift - 1) \div ceil_log2(rq.after_range)) + 2

(***************************************************************************)
(* Requant::recombine_claims over the field.                               *)
(***************************************************************************)
RECURSIVE FoldChunks(_, _, _)
\* eval_claims.iter().skip(1).rev().enumerate().fold(0, acc + B'^i * claim):
\* the i-th claim counted from the last one is weighted by B'^i
FoldChunks(rq, claims, i) ==
    IF i > Len(claims) - 2 THEN 0
    ELSE FAdd(FoldChunks(rq, claims, i + 1),
              FMul(FromU64(IntPow(next_power_of_two(rq.after_range), i)),
                   claims[Len(claims) - i]))

\* recombine_claims without the half-range correction of column 0
recombine_claims_uncorrected(rq, eval_claims) ==
    LET max_bit == Shl(rq.range, 1)
        subtract == Shr(max_bit, rq.right_shift)
        tmp_eval ==
            FAdd(FMul(FromU64(Shl(1, rq.right_shift)),
                      FAdd(eval_claims[1], FromU64(subtract))),
                 FoldChunks(rq, eval_claims, 0))
    IN  FSub(tmp_eval, FromU64(max_bit))

recombine_claims(rq, eval_claims) ==
    LET max_bit == Shl(rq.range, 1)
        subtract == Shr(max_bit, rq.right_shift)
        tmp_eval ==
            FAdd(FMul(FromU64(Shl(1, rq.right_shift)),
                      FSub(FAdd(eval_claims[1], FromU64(subtract)),
                           FromU64(Shr(rq.after_range, 1)))),
                 FoldChunks(rq, eval_claims, 0))
    IN  FSub(tmp_eval, FromU64(max_bit))

(***************************************************************************)
(* The inner loop shared by the two decompositions: the discarded low bits *)
(* are cut into chunks, the lowest chunk going to the last column.         *)
(***************************************************************************)
RECURSIVE DiscardedChunks(_, _, _, _)
\* the chunks of columns 1..n in column order
DiscardedChunks(remainder_vals, n, bit_mask, shift) ==
    IF n = 0 THEN <<>>
    ELSE Append(DiscardedChunks(Shr(remainder_vals, shift), n - 1, bit_mask, shift),
                BitAnd(remainder_vals, bit_mask))

RECURSIVE RemainderLeft(_, _, _)
\* remainder_vals after n chunks have been shifted out
RemainderLeft(remainder_vals, n, shift) ==
    IF n = 0 THEN remainder_vals
    ELSE RemainderLeft(Shr(remainder_vals, shift), n - 1, shift)

\* column c of the rows, padded with zeros to 2^num_vars cells
PaddedColumn(rows, c, zero) ==
    [i \in 1..Pow2(ceil_log2(Len(rows))) |->
        IF i <= Len(rows) THEN rows[i][c] ELSE zero]

\* the values of one row across the columns
RowOf(cols, i) == [c \in 1..Len(cols) |-> cols[c][i]]

RECURSIVE Concat(_)
\* Vec<Vec<_>>::concat
Concat(cols) == IF cols = <<>> THEN <<>> ELSE Head(cols) \o Concat(Tail(cols))

(***************************************************************************)
(* Requant::lookup_witness.                                                *)
(***************************************************************************)
\* the row with the chunks masked by B - 1 bits more than the shift removes
LookupRowWideMask(rq, val) ==
    LET bit_mask == (2 * next_power_of_two(rq.after_range)) - 1
        max_bit == Shl(rq.range, 1)
        subtract == Shr(max_bit, rq.right_shift)
        pre_shift == val + max_bit
        tmp == Shr(pre_shift, rq.right_shift)
        out == tmp - subtract + Shr(rq.after_range, 1)
        remainder_vals == pre_shift - Shl(tmp, rq.right_shift)
    IN  <<out>> \o DiscardedChunks(remainder_vals, num_columns(rq) - 1, bit_mask,
                                   ceil_log2(rq.after_range))

LookupRow(rq, val) ==
    LET bit_mask == next_power_of_two(rq.after_range) - 1
        max_bit == Shl(rq.range, 1)
        subtract == Shr(max_bit, rq.right_shift)
        pre_shift == val + max_bit
        tmp == Shr(pre_shift, rq.right_shift)
        out == tmp - subtract + Shr(rq.after_range, 1)
        remainder_vals == pre_shift - Shl(tmp, rq.right_shift)
    IN  <<out>> \o DiscardedChunks(remainder_vals, num_columns(rq) - 1, bit_mask,
                                   ceil_log2(rq.after_range))

LookupRemainder(rq, val) ==
    LET pre_shift == val + Shl(rq.range, 1)
        tmp == Shr(pre_shift, rq.right_shift)
    IN  RemainderLeft(pre_shift - Shl(tmp, rq.right_shift), num_columns(rq) - 1,
                      ceil_log2(rq.after_range))

\* the body of lookup_witness once the rows are computed
LookupWitnessOf(rq, data, debug, rows) ==
    LET lookups == [c \in 1..num_columns(rq) |-> PaddedColumn(rows, c, 0)]
        lookups_field ==
            [c \in 1..num_columns(rq) |->
                PaddedColumn([i \in 1..Len(rows) |->
                                 [k \in 1..Len(rows[i]) |-> ToField(rows[i][k])]],
                             c, 0)]
        asserts ==
            /\ \A i \in 1..Len(data) : LookupRemainder(rq, data[i]) = 0
            /\ \A i \in 1..Len(data) :
                   recombine_claims(rq, [k \in 1..Len(rows[i]) |-> ToField(rows[i][k])])
                       = ToField(data[i])
    IN  IF debug /\ ~asserts
        THEN [status |-> "Panic", lookups |-> <<>>, lookups_field |-> <<>>]
        ELSE [status |-> "Ok", lookups |-> Concat(lookups),
              lookups_field |-> lookups_field]

lookup_witness(rq, data, debug) ==
    IF ColumnCountAborts(rq, debug)
    THEN [status |-> "Panic", lookups |-> <<>>, lookups_field |-> <<>>]
    ELSE LookupWitnessOf(rq, data, debug,
                         [i \in 1..Len(data) |-> LookupRow(rq, data[i])])

(***************************************************************************)
(* Requant::prep_for_requantize.                                           *)
(***************************************************************************)
PrepRow(rq, val) ==
    LET bit_mask == rq.after_range - 1
        max_bit == Shl(rq.range, 1)
        subtract == Shr(max_bit, rq.right_shift)
        pre_shift == val + max_bit
        tmp == Shr(pre_shift, rq.right_shift)
        out == tmp - subtract
        remainder_vals == pre_shift - Shl(tmp, rq.right_shift)
        chunks == DiscardedChunks(remainder_vals, num_columns(rq) - 1, bit_mask,
                                  ilog2(rq.after_range))
    IN  <<ToField(out)>>
        \o [c \in 1..Len(chunks) |-> ToField(chunks[c] - Shr(rq.after_range, 1))]

PrepRemainder(rq, val) ==
    LET pre_shift == val + Shl(rq.range, 1)
        tmp == Shr(pre_shift, rq.right_shift)
    IN  RemainderLeft(pre_shift - Shl(tmp, rq.right_shift), num_columns(rq) - 1,
                      ilog2(rq.after_range))

\* the body of prep_for_requantize once the rows are computed
PrepForRequantizeOf(rq, data, debug, rows) ==
    LET mle_evals == [c \in 1..num_columns(rq) |-> PaddedColumn(rows, c, 0)]
        asserts ==
            /\ \A i \in 1..Len(data) : PrepRemainder(rq, data[i]) = 0
            /\ \A i \in 1..Len(data) :
                   recombine_claims(rq, rows[i]) = ToField(data[i])
    IN  IF debug /\ ~asserts
        THEN [status |-> "Panic", mle_evals |-> mle_evals]
        ELSE [status |-> "Ok", mle_evals |-> mle_evals]

prep_for_requantize(rq, data, debug) ==
    IF ColumnCountAborts(rq, debug)
    THEN [status |-> "Panic", mle_evals |-> <<>>]
    ELSE PrepForRequantizeOf(rq, data, debug,
                             [i \in 1..Len(data) |-> PrepRow(rq, data[i])])

(***************************************************************************)
(* The Requant values and the tensors the model ranges over.  after_range  *)
(* is a power of two (data-model invariant); the two scenario values are   *)
(* the documented 8-bit quantisation with right_shift 8 and 10.            *)
(***************************************************************************)
GridRequants ==
    [right_shift : 0..MaxShift,
     range : 1..MaxRange,
     after_range : {Pow2(k) : k \in 1..MaxLogAfter}]

ScenarioRequants ==
    {[right_shift |-> 8, range |-> 128, after_range |-> 256],
     [right_shift |-> 10, range |-> 1024, after_range |-> 256]}

Requants == GridRequants \cup ScenarioRequants

Elements == (-MaxElem)..MaxElem

\* rows are handled one by one, so tensors are taken in increasing order
GridTensors ==
    UNION {{t \in [1..n -> Elements] : \A i \in 1..(n - 1) : t[i] < t[i + 1]}
           : n \in 1..MaxLen}

ScenarioTensors == {<<0>>, <<-32>>, <<5>>, <<-32, 0, 5>>, <<-300, 40000>>}

TensorsFor(rq) == IF rq \in ScenarioRequants THEN ScenarioTensors ELSE GridTensors

NoRet == [status |-> "None"]

ArithInit ==
    /\ requant \in Requants
    /\ input \in TensorsFor(requant)
    /\ debug_assertions \in BOOLEAN
    /\ pc = "init"
    /\ ret = NoRet
    /\ nodes = <<>>
    /\ claims_by_node = <<>>
    /\ output_claims = <<>>
    /\ gen = <<>>
    /\ prover = <<>>
    /\ verifier = <<>>
    /\ last_claim = <<>>

Op ==
    /\ pc \in {"init", "op", "prep_for_requantize", "lookup_witness"}
    /\ pc' = "op"
    /\ ret' = op(requant, input)
    /\ UNCHANGED <<arithVars, routingVars, proofVars>>

PrepForRequantize ==
    /\ pc \in {"init", "op", "prep_for_requantize", "lookup_witness"}
    /\ pc' = "prep_for_requantize"
    /\ ret' = prep_for_requantize(requant, input, debug_assertions)
    /\ UNCHANGED <<arithVars, routingVars, proofVars>>

LookupWitness ==
    /\ pc \in {"init", "op", "prep_for_requantize", "lookup_witness"}
    /\ pc' = "lookup_witness"
    /\ ret' = lookup_witness(requant, input, debug_assertions)
    /\ UNCHANGED <<arithVars, routingVars, proofVars>>

(***************************************************************************)
(* The graph model: Edge, OutputWire, Node / NodeCtx.  Option<NodeId> is   *)
(* <<>> for None and <<id>> for Some(id).                                  *)
(***************************************************************************)
None == <<>>
Some(id) == <<id>>

\* Edge::new and Edge::new_at_edge
EdgeNew(node, index) == [node |-> Some(node), index |-> index]
EdgeNewAtEdge(index) == [node |-> None, index |-> index]

\* Requant::num_outputs
num_outputs(num_inputs) == num_inputs

\* Node::new_with_outputs
NodeNewWithOutputs(inputs, outputs) == [inputs |-> inputs, outputs |-> outputs]

\* Node::new: one default (edge-less) OutputWire per output
NodeNew(inputs) ==
    NodeNewWithOutputs(inputs, [w \in 1..num_outputs(Len(inputs)) |-> [edges |-> <<>>]])

(***************************************************************************)
(* NodeCtx::claims_for_node.  The iterator is lazy and collecting into a   *)
(* Result stops at the first Err: wires after it are never looked at.      *)
(***************************************************************************)
RECURSIVE ClaimsOfWires(_, _, _, _, _)
ClaimsOfWires(outputs, w, cbn, oc, acc) ==
    IF w > Len(outputs) THEN [status |-> "Ok", claims |-> acc]
    ELSE LET out == outputs[w] IN
         IF Len(out.edges) # 1 THEN [status |-> "Panic", claims |-> <<>>]
         ELSE LET edge == out.edges[1] IN
              IF edge.node # None
              THEN LET id == edge.node[1] IN
                   IF id \notin DOMAIN cbn
                   THEN [status |-> "Err", claims |-> <<>>]
                   ELSE IF ~(edge.index < Len(cbn[id]))
                   THEN [status |-> "Err", claims |-> <<>>]
                   ELSE ClaimsOfWires(outputs, w + 1, cbn, oc,
                                      Append(acc, cbn[id][edge.index + 1]))
              ELSE IF ~(edge.index < Len(oc))
                   THEN [status |-> "Err", claims |-> <<>>]
                   ELSE ClaimsOfWires(outputs, w + 1, cbn, oc,
                                      Append(acc, oc[edge.index + 1]))

\* claims_for_node taking the first edge of a wire with several edges
claims_for_node_first_edge(self, cbn, oc) ==
    ClaimsOfWires([w \in 1..Len(self.outputs) |->
                      IF Len(self.outputs[w].edges) > 1
                      THEN [edges |-> <<self.outputs[w].edges[1]>>]
                      ELSE self.outputs[w]],
                  1, cbn, oc, <<>>)

\* claims_for_node with the bounds check on output_claims off by one
claims_for_node_short_bound(self, cbn, oc) ==
    ClaimsOfWires(self.outputs, 1, cbn, SubSeq(oc, 1, Len(oc) - 1), <<>>)

\* claims_for_node walking the output wires from the last to the first
claims_for_node_reverse_order(self, cbn, oc) ==
    ClaimsOfWires([w \in 1..Len(self.outputs) |->
                      self.outputs[Len(self.outputs) + 1 - w]],
                  1, cbn, oc, <<>>)

claims_for_node(self, cbn, oc) == ClaimsOfWires(self.outputs, 1, cbn, oc, <<>>)

(***************************************************************************)
(* NodeCtx::input_claims.  The BTreeMap is a function on its key set.      *)
(***************************************************************************)
\* an insert that keeps the value already stored under the key
BTreeInsertIfAbsent(map, key, value) ==
    [k \in (DOMAIN map) \cup {key} |-> IF k \in DOMAIN map THEN map[k] ELSE value]

BTreeInsert(map, key, value) ==
    [k \in (DOMAIN map) \cup {key} |-> IF k = key THEN value ELSE map[k]]

SetMin(S) == CHOOSE x \in S : \A y \in S : x <= y
SetMax(S) == CHOOSE x \in S : \A y \in S : x >= y

RECURSIVE BTreeValues(_)
\* into_iter(): the values in key order
BTreeValues(map) ==
    IF DOMAIN map = {} THEN <<>>
    ELSE LET k == SetMin(DOMAIN map)
         IN  <<map[k]>> \o BTreeValues([j \in (DOMAIN map) \ {k} |-> map[j]])

RECURSIVE ScanInputs(_, _, _, _, _)
\* the two nested loops: node iter[n], input position i (from 1)
ScanInputs(iter, n, i, cbn, claims) ==
    IF n > Len(iter) THEN [status |-> "Ok", map |-> claims]
    ELSE LET node_id == iter[n][1]
             ctx == iter[n][2]
         IN  IF i > Len(ctx.inputs) THEN ScanInputs(iter, n + 1, 1, cbn, claims)
             ELSE IF ctx.inputs[i].node = None
             THEN IF node_id \notin DOMAIN cbn
                  THEN [status |-> "Err", map |-> claims]
                  ELSE IF i > Len(cbn[node_id])
                  THEN [status |-> "Panic", map |-> claims]
                  ELSE ScanInputs(iter, n, i + 1, cbn,
                                  BTreeInsert(claims, ctx.inputs[i].index,
                                              cbn[node_id][i]))
             ELSE ScanInputs(iter, n, i + 1, cbn, claims)

\* input_claims without the check that the indices are 0..len-1
input_claims_unchecked(iter, cbn) ==
    LET scan == ScanInputs(iter, 1, 1, cbn, <<>>)
    IN  IF scan.status # "Ok" THEN [status |-> scan.status, claims |-> <<>>]
        ELSE [status |-> "Ok", claims |-> BTreeValues(scan.map)]

input_claims(iter, cbn) ==
    LET scan == ScanInputs(iter, 1, 1, cbn, <<>>)
        claims == scan.map
    IN  IF scan.status # "Ok" THEN [status |-> scan.status, claims |-> <<>>]
        ELSE IF ~(Cardinality(DOMAIN claims) >= 1)
        THEN [status |-> "Err", claims |-> <<>>]
        ELSE IF ~(SetMin(DOMAIN claims) = 0
                  /\ SetMax(DOMAIN claims) = Cardinality(DOMAIN claims) - 1)
        THEN [status |-> "Err", claims |-> <<>>]
        ELSE [status |-> "Ok", claims |-> BTreeValues(claims)]

(***************************************************************************)
(* The graphs, claim maps and output claims the model ranges over.         *)
(***************************************************************************)
\* the claim about input i (from 0) of node id, and about model output j
InputClaim(id, i) == [point |-> <<id>>, eval |-> i]
OutputClaim(j) == [point |-> <<>>, eval |-> j]


\* a node whose output wires are under test: each wire has 0, 1 or 2 edges
\* towards the first or last of the model's outputs or of the other node's inputs
OutEdges ==
    {EdgeNewAtEdge(i) : i \in {0, MaxArity - 1}}
    \cup {EdgeNew(1, i) : i \in {0, MaxArity - 1}}

Wires ==
    {[edges |-> <<>>]}
    \cup {[edges |-> <<e>>] : e \in OutEdges}
    \cup {[edges |-> <<e, f>>] : e \in OutEdges, f \in OutEdges}

WiredGraphs ==
    {<<NodeNewWithOutputs(<<EdgeNewAtEdge(0)>>, outs),
       NodeNew([i \in 1..m |-> EdgeNew(0, 0)])>>
     : outs \in ([1..1 -> Wires] \cup [1..2 -> Wires]), m \in 1..MaxArity}

\* nodes as Node::new leaves them, with any input edges
InEdges == {EdgeNewAtEdge(i) : i \in 0..MaxArity} \cup {EdgeNew(0, 0)}

InputLists == UNION {[1..n -> InEdges] : n \in 1..MaxArity}

FreshGraphs ==
    {<<NodeNew(a)>> : a \in InputLists}
    \cup {<<NodeNew(a), NodeNew(<<e>>)>> : a \in InputLists, e \in InEdges}

\* one claim per input for the nodes that have an entry
ClaimMaps(g) ==
    {[id \in present |-> [i \in 1..Len(g[id + 1].inputs) |-> InputClaim(id, i - 1)]]
     : present \in SUBSET (0..(Len(g) - 1))}

RoutingInit ==
    /\ nodes \in WiredGraphs \cup FreshGraphs
    /\ claims_by_node \in ClaimMaps(nodes)
    /\ output_claims \in {[j \in 1..n |-> OutputClaim(j - 1)] : n \in 0..MaxArity}
    /\ pc = "init"
    /\ ret = NoRet
    /\ requant = [right_shift |-> 1, range |-> 1, after_range |-> 2]
    /\ input = <<>>
    /\ debug_assertions = FALSE
    /\ gen = <<>>
    /\ prover = <<>>
    /\ verifier = <<>>
    /\ last_claim = <<>>

ClaimsForNode(n) ==
    /\ pc \in {"init", "claims_for_node", "input_claims"}
    /\ pc' = "claims_for_node"
    /\ ret' = [node |-> n]
              @@ claims_for_node(nodes[n + 1], claims_by_node, output_claims)
    /\ UNCHANGED <<arithVars, routingVars, proofVars>>

\* the orders in which the caller's iterator may yield the nodes
NodeOrders(g) ==
    {o \in [1..Len(g) -> 0..(Len(g) - 1)] : \A i, j \in 1..Len(g) : i # j => o[i] # o[j]}

InputClaims(order) ==
    /\ pc \in {"init", "claims_for_node", "input_claims"}
    /\ pc' = "input_claims"
    /\ ret' = [order |-> order]
              @@ input_claims([k \in 1..Len(order) |-> <<order[k], nodes[order[k] + 1]>>],
                              claims_by_node)
    /\ UNCHANGED <<arithVars, routingVars, proofVars>>

(***************************************************************************)
(* The proving pipeline of a requant layer.  Claims are evaluation claims  *)
(* [point, eval] about multilinear polynomials given by their evaluations. *)
(* The LogUp and same-poly backends and the witness-commitment protocol    *)
(* are modelled by their contracts: LogUp yields one claim per column at a *)
(* common point, same-poly merges the accumulated claims into one claim.   *)
(***************************************************************************)
Challenges == {2, 3}

Points(num_vars) == [1..num_vars -> Challenges]

RECURSIVE MleEval(_, _)
\* the multilinear extension of evals at point
MleEval(evals, point) ==
    IF point = <<>> THEN evals[1]
    ELSE LET half == Len(evals) \div 2
             r == Head(point)
         IN  FAdd(FMul(FSub(1, r), MleEval(SubSeq(evals, 1, half), Tail(point))),
                  FMul(r, MleEval(SubSeq(evals, half + 1, 2 * half), Tail(point))))

ClaimAt(evals, point) == [point |-> point, eval |-> MleEval(evals, point)]

NumVars(evals) == ceil_log2(Len(evals))

\* Requant::step_info: the verifier context of the layer
step_info(rq, id, input_len) ==
    [kind |-> "Requant", requant |-> rq, poly_id |-> id, num_vars |-> ceil_log2(input_len)]

RECURSIVE CountLookups(_, _)
\* merged_lookups.for_each(|val| *table_lookup_map.entry(val).or_insert(0) += 1)
\* counting that starts from an empty map, dropping the counts of earlier nodes
CountLookupsReplacing(table_lookup_map, merged_lookups) ==
    [v \in {merged_lookups[k] : k \in DOMAIN merged_lookups} |->
        Cardinality({k \in DOMAIN merged_lookups : merged_lookups[k] = v})]

CountLookups(table_lookup_map, merged_lookups) ==
    IF merged_lookups = <<>> THEN table_lookup_map
    ELSE LET val == Head(merged_lookups)
             count == IF val \in DOMAIN table_lookup_map THEN table_lookup_map[val] ELSE 0
         IN  CountLookups(BTreeInsert(table_lookup_map, val, count + 1),
                          Tail(merged_lookups))

NewGen == [tables |-> {}, lookups |-> <<>>, polys_with_id |-> <<>>,
           lookups_no_challenges |-> <<>>]

\* the rest of gen_lookup_witness once lookup_witness has returned w
GenLookupWitnessOf(id, g, outputs, w) ==
    LET registered ==
            [g EXCEPT !.tables = @ \cup {"Range"},
                      !.lookups = IF "Range" \in DOMAIN @ THEN @
                                  ELSE BTreeInsert(@, "Range", <<>>)]
    IN  IF w.status = "Panic" THEN [status |-> "Panic", gen |-> registered]
        ELSE [status |-> "Ok",
              gen |-> [registered EXCEPT
                  !.lookups = BTreeInsert(@, "Range", CountLookups(@["Range"], w.lookups)),
                  !.polys_with_id = Append(@, <<id, [i \in 1..Len(outputs[1]) |->
                                                        ToField(outputs[1][i])]>>),
                  !.lookups_no_challenges =
                      BTreeInsert(@, id, <<w.lookups_field, 1, "Range">>)]]

\* the result of evaluate for the tensor list of a layer
EvaluateOf(r) ==
    IF r.status = "Ok" THEN [status |-> "Ok", outputs |-> <<r.data>>]
    ELSE [status |-> r.status, outputs |-> <<>>]

\* evaluate without its arity check, working on the first tensor
evaluate_any_arity(rq, inputs) ==
    IF inputs = <<>> THEN [status |-> "Err", outputs |-> <<>>]
    ELSE EvaluateOf(op(rq, inputs[1]))

\* Evaluate::evaluate for Requant
evaluate(rq, inputs) ==
    IF Len(inputs) # 1 THEN [status |-> "Err", outputs |-> <<>>]
    ELSE EvaluateOf(op(rq, inputs[1]))

\* Requant::gen_lookup_witness
gen_lookup_witness(rq, id, g, inputs, outputs, debug) ==
    IF Len(inputs) # 1 \/ Len(outputs) # 1 THEN [status |-> "Err", gen |-> g]
    ELSE GenLookupWitnessOf(id, g, outputs, lookup_witness(rq, inputs[1], debug))

(***************************************************************************)
(* Requant::prove_step.  fail names the fallible backend call that returns *)
(* Err in this run ("none": all succeed); p is the point LogUp draws from  *)
(* the transcript, q the point of the merged same-poly claim.              *)
(***************************************************************************)
FailStages == {"none", "logup_batch_prove", "add_claim_last", "add_claim_corrected",
               "same_poly_prove", "witness_add_claim"}

NoClaim == [point |-> <<>>, eval |-> 0]

NewProver == [transcript |-> <<>>, proofs |-> <<>>, witness_claims |-> <<>>]

\* logup_batch_prove: one claim per column, all at the point p
LogUpProve(column_evals, p) ==
    [output_claims |-> [c \in 1..Len(column_evals) |-> ClaimAt(column_evals[c], p)]]

\* the claim both sides add second to the same-poly accumulator
CorrectedClaim(first_claim) ==
    [point |-> first_claim.point,
     eval |-> FSub(first_claim.eval, FromU64(QuantRange \div 2))]

\* same_poly::Prover::prove over the accumulated claims
SamePolyProve(output, claims, q) ==
    [claims |-> claims, merged |-> ClaimAt(output, q)]

\* prove_step pushing the layer proof before the witness-commitment add_claim
ProveStepOfEarlyPush(pr, last, output, requant_info, id, fail, q, logup_proof) ==
    LET t1 == Append(pr.transcript, [op |-> "logup", data |-> logup_proof.output_claims])
        eval_claims == [c \in 1..Len(logup_proof.output_claims) |->
                           logup_proof.output_claims[c].eval]
        combined_eval == recombine_claims(requant_info.requant, eval_claims)
        first_claim == logup_proof.output_claims[1]
        claim_acc_proof ==
            SamePolyProve(output, <<last, CorrectedClaim(first_claim)>>, q)
        t2 == Append(t1, [op |-> "same_poly", data |-> claim_acc_proof.merged])
        pushed == Append(pr.proofs,
                         [id |-> id,
                          proof |-> [kind |-> "Requant",
                                     io_accumulation |-> claim_acc_proof,
                                     lookup |-> logup_proof]])
    IN  IF fail \in {"add_claim_last", "add_claim_corrected", "same_poly_prove"}
        THEN [status |-> "Err", claim |-> NoClaim, prover |-> [pr EXCEPT !.transcript = t1]]
        ELSE IF fail = "witness_add_claim"
        THEN [status |-> "Err", claim |-> NoClaim,
              prover |-> [pr EXCEPT !.transcript = t2, !.proofs = pushed]]
        ELSE [status |-> "Ok",
              claim |-> [point |-> first_claim.point, eval |-> combined_eval],
              prover |-> [transcript |-> t2,
                          proofs |-> pushed,
                          witness_claims |-> Append(pr.witness_claims,
                              <<requant_info.poly_id, claim_acc_proof.merged>>)]]

\* prove_step after the lookup proof: the same-poly accumulation and the push
ProveStepOf(pr, last, output, requant_info, id, fail, q, logup_proof) ==
    LET t1 == Append(pr.transcript, [op |-> "logup", data |-> logup_proof.output_claims])
        eval_claims == [c \in 1..Len(logup_proof.output_claims) |->
                           logup_proof.output_claims[c].eval]
        combined_eval == recombine_claims(requant_info.requant, eval_claims)
        first_claim == logup_proof.output_claims[1]
        corrected_claim == CorrectedClaim(first_claim)
        claim_acc_proof == SamePolyProve(output, <<last, corrected_claim>>, q)
        t2 == Append(t1, [op |-> "same_poly", data |-> claim_acc_proof.merged])
    IN  IF fail \in {"add_claim_last", "add_claim_corrected", "same_poly_prove"}
        THEN [status |-> "Err", claim |-> NoClaim, prover |-> [pr EXCEPT !.transcript = t1]]
        ELSE IF fail = "witness_add_claim"
        THEN [status |-> "Err", claim |-> NoClaim, prover |-> [pr EXCEPT !.transcript = t2]]
        ELSE [status |-> "Ok",
              claim |-> [point |-> first_claim.point, eval |-> combined_eval],
              prover |-> [transcript |-> t2,
                          proofs |-> Append(pr.proofs,
                              [id |-> id,
                               proof |-> [kind |-> "Requant",
                                          io_accumulation |-> claim_acc_proof,
                                          lookup |-> logup_proof]]),
                          witness_claims |-> Append(pr.witness_claims,
                              <<requant_info.poly_id, claim_acc_proof.merged>>)]]

prove_step(pr, g, last, output, requant_info, id, fail, p, q) ==
    IF id \notin DOMAIN g.lookups_no_challenges \/ fail = "logup_batch_prove"
    THEN [status |-> "Err", claim |-> NoClaim, prover |-> pr]
    ELSE ProveStepOf(pr, last, output, requant_info, id, fail, q,
                     LogUpProve(g.lookups_no_challenges[id][1], p))

(***************************************************************************)
(* RequantCtx::verify_requant, RequantCtx::verify and LayerCtx::verify.    *)
(***************************************************************************)
NewVerifier(challenge_storage) ==
    [transcript |-> <<>>, challenge_storage |-> challenge_storage, witness_claims |-> <<>>]

\* the verifier returning the first column's claim without recombining
VerifyRequantOfFirstColumn(ctx, vf, last, proof, verifier_claims) ==
    LET t1 == Append(vf.transcript, [op |-> "logup", data |-> verifier_claims])
        first_claim == verifier_claims[1]
        corrected_claim == CorrectedClaim(first_claim)
        new_output_claim == proof.io_accumulation.merged
        t2 == Append(t1, [op |-> "same_poly", data |-> new_output_claim])
    IN  IF proof.io_accumulation.claims # <<last, corrected_claim>>
        THEN [status |-> "Err", claims |-> <<>>, verifier |-> [vf EXCEPT !.transcript = t1]]
        ELSE [status |-> "Ok",
              claims |-> <<first_claim>>,
              verifier |-> [vf EXCEPT !.transcript = t2,
                                      !.witness_claims =
                                          Append(@, <<ctx.poly_id, new_output_claim>>)]]

\* the verifier running the same-poly verification before the lookup proof
VerifyRequantOfSamePolyFirst(ctx, vf, last, proof, verifier_claims) ==
    LET first_claim == verifier_claims[1]
        corrected_claim == CorrectedClaim(first_claim)
        new_output_claim == proof.io_accumulation.merged
        t1 == Append(vf.transcript, [op |-> "same_poly", data |-> new_output_claim])
        t2 == Append(t1, [op |-> "logup", data |-> verifier_claims])
        eval_claims == [c \in 1..Len(verifier_claims) |-> verifier_claims[c].eval]
    IN  IF proof.io_accumulation.claims # <<last, corrected_claim>>
        THEN [status |-> "Err", claims |-> <<>>, verifier |-> vf]
        ELSE [status |-> "Ok",
              claims |-> <<[point |-> first_claim.point,
                            eval |-> recombine_claims(ctx.requant, eval_claims)]>>,
              verifier |-> [vf EXCEPT !.transcript = t2,
                                      !.witness_claims =
                                          Append(@, <<ctx.poly_id, new_output_claim>>)]]

\* verify_requant after the lookup proof has been accepted
VerifyRequantOf(ctx, vf, last, proof, verifier_claims) ==
    LET t1 == Append(vf.transcript, [op |-> "logup", data |-> verifier_claims])
        first_claim == verifier_claims[1]
        corrected_claim == CorrectedClaim(first_claim)
        new_output_claim == proof.io_accumulation.merged
        t2 == Append(t1, [op |-> "same_poly", data |-> new_output_claim])
        eval_claims == [c \in 1..Len(verifier_claims) |-> verifier_claims[c].eval]
    IN  IF proof.io_accumulation.claims # <<last, corrected_claim>>
        THEN [status |-> "Err", claims |-> <<>>, verifier |-> [vf EXCEPT !.transcript = t1]]
        ELSE [status |-> "Ok",
              claims |-> <<[point |-> first_claim.point,
                            eval |-> recombine_claims(ctx.requant, eval_claims)]>>,
              verifier |-> [vf EXCEPT !.transcript = t2,
                                      !.witness_claims =
                                          Append(@, <<ctx.poly_id, new_output_claim>>)]]

verify_requant(ctx, vf, last, proof, debug) ==
    IF SubUnderflows(ctx.requant) /\ debug
    THEN [status |-> "Panic", claims |-> <<>>, verifier |-> vf]
    ELSE IF \/ ColumnCountAborts(ctx.requant, debug)
            \/ Len(proof.lookup.output_claims) # num_columns(ctx.requant)
    THEN [status |-> "Err", claims |-> <<>>, verifier |-> vf]
    ELSE VerifyRequantOf(ctx, vf, last, proof, proof.lookup.output_claims)

\* RequantCtx::verify: challenge_storage is an Option that is unwrapped
RequantCtxVerify(ctx, proof, last_claims, vf, debug) ==
    IF vf.challenge_storage = None
    THEN [status |-> "Panic", claims |-> <<>>, verifier |-> vf]
    ELSE IF "Range" \notin vf.challenge_storage[1]
    THEN [status |-> "Err", claims |-> <<>>, verifier |-> vf]
    ELSE verify_requant(ctx, vf, last_claims[1], proof, debug)

ProvableKinds == {"Dense", "Convolution", "Activation", "Requant", "Pooling"}
LayerKinds == ProvableKinds \cup {"Flatten"}

\* the verifier of a peer layer: it absorbs its proof and accepts it or not
PeerVerify(ctx, proof, last_claims, vf, accepts) ==
    [status |-> IF accepts THEN "Ok" ELSE "Err",
     claims |-> IF accepts THEN last_claims ELSE <<>>,
     verifier |-> [vf EXCEPT !.transcript = Append(@, [op |-> ctx.kind, data |-> <<>>])]]

\* LayerCtx::verify handing any proof to the layer's verifier
LayerCtxVerifyUntagged(ctx, proof, last_claims, vf, debug, accepts) ==
    IF ctx.kind \notin ProvableKinds
    THEN [status |-> "Panic", claims |-> <<>>, verifier |-> vf]
    ELSE IF ctx.kind = "Requant" /\ proof.kind = "Requant"
    THEN RequantCtxVerify(ctx, proof, last_claims, vf, debug)
    ELSE PeerVerify(ctx, proof, last_claims, vf, accepts)

\* LayerCtx::verify
LayerCtxVerify(ctx, proof, last_claims, vf, debug, accepts) ==
    IF ctx.kind \notin ProvableKinds
    THEN [status |-> "Panic", claims |-> <<>>, verifier |-> vf]
    ELSE IF proof.kind # ctx.kind
    THEN [status |-> "Err", claims |-> <<>>, verifier |-> vf]
    ELSE IF ctx.kind = "Requant"
    THEN RequantCtxVerify(ctx, proof, last_claims, vf, debug)
    ELSE PeerVerify(ctx, proof, last_claims, vf, accepts)

(***************************************************************************)
(* The proving runs the model ranges over: a requant layer whose inference *)
(* succeeded (tensors are padded to a power of two before proving), the    *)
(* witness-generation pass, the proof of one layer and its verification.   *)
(***************************************************************************)
NodeIds == {0, 1}

ProofTensors == {<<0>>, <<-1, 2>>}

FieldTensor(data) == [i \in 1..Len(data) |-> ToField(data[i])]

ProofInit ==
    /\ requant \in GridRequants
    /\ input \in {t \in ProofTensors : op(requant, t).status = "Ok"}
    /\ debug_assertions \in BOOLEAN
    /\ pc = "init"
    /\ ret = NoRet
    /\ nodes = <<>>
    /\ claims_by_node = <<>>
    /\ output_claims = <<>>
    /\ gen = NewGen
    /\ prover = NewProver
    /\ verifier \in {NewVerifier(cs) : cs \in {None, Some({}), Some({"Range"})}}
    /\ last_claim \in {ClaimAt(FieldTensor(op(requant, input).data), pt)
                       : pt \in Points(NumVars(input))}

GenLookupWitness(id, num_inputs) ==
    /\ pc \in {"init", "gen_lookup_witness"}
    /\ ret.status \in {"None", "Ok"}
    /\ id \notin DOMAIN gen.lookups_no_challenges
    /\ LET r == gen_lookup_witness(requant, id, gen, [k \in 1..num_inputs |-> input],
                                   <<op(requant, input).data>>, debug_assertions)
       IN  /\ gen' = r.gen
           /\ ret' = [status |-> r.status, id |-> id, num_inputs |-> num_inputs]
    /\ pc' = "gen_lookup_witness"
    /\ UNCHANGED <<arithVars, routingVars, prover, verifier, last_claim>>

\* Node::new for a requant layer fed by num_inputs outputs of the previous node
NewNode(num_inputs) ==
    /\ pc = "init"
    /\ pc' = "node_new"
    /\ nodes' = <<NodeNew([i \in 1..num_inputs |-> EdgeNew(0, i - 1)])>>
    /\ UNCHANGED <<arithVars, ret, claims_by_node, output_claims, proofVars>>

\* the inference step of that node: evaluate on one tensor per input edge
Evaluate ==
    /\ pc = "node_new"
    /\ pc' = "evaluate"
    /\ ret' = evaluate(requant, [k \in 1..Len(nodes[1].inputs) |-> input])
    /\ UNCHANGED <<arithVars, routingVars, proofVars>>

ProveStep(id, fail, p, q) ==
    /\ pc \in {"init", "gen_lookup_witness", "prove_step"}
    /\ ret.status \in {"None", "Ok"}
    /\ prover.proofs = <<>>
    /\ LET r == prove_step(prover, gen, last_claim,
                           FieldTensor(op(requant, input).data),
                           step_info(requant, id, Len(input)), id, fail, p, q)
       IN  /\ prover' = r.prover
           /\ ret' = [status |-> r.status, claim |-> r.claim, id |-> id]
           \* the driver files the returned claims under the node's id
           /\ claims_by_node' = IF r.status = "Ok"
                                THEN BTreeInsert(claims_by_node, id, <<r.claim>>)
                                ELSE claims_by_node
    /\ pc' = "prove_step"
    /\ UNCHANGED <<arithVars, nodes, output_claims, gen, verifier, last_claim>>

\* the layer contexts and the layer proofs a verification may be handed
Contexts ==
    {step_info(requant, id, Len(input)) : id \in DOMAIN claims_by_node}
    \cup {[kind |-> k] : k \in LayerKinds \ {"Requant"}}

Proofs ==
    {prover.proofs[k].proof : k \in 1..Len(prover.proofs)}
    \cup {[kind |-> k] : k \in ProvableKinds \ {"Requant"}}

Verify(ctx, proof, last, accepts) ==
    /\ pc = "prove_step"
    /\ ret.status = "Ok"
    /\ LET r == LayerCtxVerify(ctx, proof, <<last>>, verifier, debug_assertions, accepts)
       IN  /\ verifier' = r.verifier
           /\ ret' = [status |-> r.status, claims |-> r.claims, ctx |-> ctx,
                      proof |-> proof, last |-> last]
    /\ pc' = "verify"
    /\ UNCHANGED <<arithVars, routingVars, gen, prover, last_claim>>

\* the downstream claims handed to the verifier: the one the layer was proved
\* for and, for a requant proof in a requant context, also a different one
LastClaims(ctx, proof) ==
    IF ctx.kind = "Requant" /\ proof.kind = "Requant"
    THEN {last_claim, [last_claim EXCEPT !.eval = FAdd(@, 1)]}
    ELSE {last_claim}

ProofNext ==
    \/ \E num_inputs \in 0..MaxArity : NewNode(num_inputs)
    \/ Evaluate
    \/ \E id \in NodeIds, num_inputs \in 1..2 : GenLookupWitness(id, num_inputs)
    \/ \E id \in NodeIds, fail \in FailStages :
           \E p, q \in Points(NumVars(input)) : ProveStep(id, fail, p, q)
    \/ \E ctx \in Contexts, proof \in Proofs, accepts \in BOOLEAN :
           \E last \in LastClaims(ctx, proof) : Verify(ctx, proof, last, accepts)

SpecProof == ProofInit /\ [][ProofNext]_vars

Init == ArithInit

Next ==
    \/ Op
    \/ PrepForRequantize
    \/ LookupWitness

Spec == Init /\ [][Next]_vars

RoutingNext ==
    \/ \E n \in 0..(Len(nodes) - 1) : ClaimsForNode(n)
    \/ \E order \in NodeOrders(nodes) : InputClaims(order)

SpecRouting == RoutingInit /\ [][RoutingNext]_vars

(***************************************************************************)
(* Properties.                                                             *)
(***************************************************************************)
MaxBit == Shl(requant.range, 1)

\* the claims' precondition on the elements: e + (range << 1) >= 0
InputsNonNegative == \A i \in 1..Len(input) : input[i] + MaxBit >= 0

\* ceil(a / b) for b >= 1, written without the source's expression
CeilDiv(a, b) == IF a % b = 0 THEN a \div b ELSE (a \div b) + 1

\* log2 of after_range, a power of two
LogAfter == CHOOSE k \in 0..16 : Pow2(k) = requant.after_range

\* the integer cell of column c (from 1) and row i (from 1) of lookup_witness
LookupCell(c, i) == ret.lookups[(c - 1) * Len(ret.lookups_field[1]) + i]

\* C1: with right_shift >= 1 and every element satisfying e + (range << 1) >= 0,
\* lookup_witness returns, and recombine_claims of the column values of each row
\* is the field lift of the row's input element.
C1_RecombinationExact ==
    (pc = "lookup_witness" /\ requant.right_shift >= 1 /\ InputsNonNegative)
    => /\ ret.status = "Ok"
       /\ \A i \in 1..Len(input) :
              recombine_claims(requant, RowOf(ret.lookups_field, i)) = ToField(input[i])

\* a negative element with discarded bits set, cut into two chunks, in a build
\* without debug assertions
C1_Witness ==
    /\ pc = "lookup_witness" /\ ret.status = "Ok" /\ ~debug_assertions
    /\ InputsNonNegative
    /\ Len(ret.lookups_field) = 3
    /\ \E i \in 1..Len(input) :
           /\ input[i] < 0
           /\ ret.lookups_field[2][i] # 0 /\ ret.lookups_field[3][i] # 0

\* C2 (as stated): prep_for_requantize returns, and column 0 holds the field
\* lift of apply(e) for every element e with e + (range << 1) >= 0.
C2_ApplyDecomposeConsistent ==
    (pc = "prep_for_requantize" /\ requant.right_shift >= 1 /\ InputsNonNegative)
    => /\ ret.status = "Ok"
       /\ \A i \in 1..Len(input) :
              ret.mle_evals[1][i] = ToField(apply(requant, input[i]).value)

\* C8 (as stated): the decompositions hold ceil((right_shift - 1) / b) + 2 columns.
C8_ColumnCountAsStated ==
    (pc \in {"prep_for_requantize", "lookup_witness"} /\ requant.right_shift >= 1)
    => LET K == CeilDiv(requant.right_shift - 1, LogAfter) + 2
       IN  IF pc = "lookup_witness"
           THEN Len(ret.lookups_field) = K
           ELSE Len(ret.mle_evals) = K

\* C8 (amended): with right_shift >= 1 the decompositions hold
\* floor((right_shift - 1) / b) + 2 = ceil(right_shift / b) + 1 columns;
\* right_shift = 10 with after_range = 256 gives 3 columns.
C8_ColumnCount ==
    (pc \in {"prep_for_requantize", "lookup_witness"} /\ requant.right_shift >= 1)
    => LET K == CeilDiv(requant.right_shift, LogAfter) + 1
           cols == IF pc = "lookup_witness" THEN ret.lookups_field ELSE ret.mle_evals
       IN  /\ Len(cols) = K
           /\ \A c \in 1..K : Len(cols[c]) = Pow2(ceil_log2(Len(input)))
           /\ pc = "lookup_witness" => Len(ret.lookups) = K * Pow2(ceil_log2(Len(input)))
           /\ (requant.right_shift = 10 /\ requant.after_range = 256) => Len(cols) = 3

C8_Witness ==
    /\ pc = "lookup_witness" /\ ret.status = "Ok"
    /\ requant.right_shift = 10 /\ requant.after_range = 256
    /\ input = <<5>>
    /\ ret.lookups = <<128, 0, 5>>

\* C9 (as stated): every cell of every column of lookup_witness lies in
\* [0, after_range) when every element satisfies e + (range << 1) >= 0.
C9_RangeConfinementAsStated ==
    (pc = "lookup_witness" /\ ret.status = "Ok" /\ InputsNonNegative)
    => \A k \in 1..Len(ret.lookups) :
           ret.lookups[k] >= 0 /\ ret.lookups[k] < requant.after_range

\* C9 (amended): the discarded-chunk columns and the padding rows lie in
\* [0, after_range); a cell of column 0 does exactly when apply(e) lies in
\* [-after_range/2, after_range/2 - 1].
C9_RangeConfinement ==
    (pc = "lookup_witness" /\ ret.status = "Ok" /\ InputsNonNegative)
    => LET B == requant.after_range
           rows == Len(ret.lookups_field[1])
           InRange(v) == v >= 0 /\ v < B
       IN  /\ \A c \in 2..Len(ret.lookups_field) : \A i \in 1..rows :
                  InRange(LookupCell(c, i))
           /\ \A c \in 1..Len(ret.lookups_field) : \A i \in (Len(input) + 1)..rows :
                  LookupCell(c, i) = 0
           /\ \A i \in 1..Len(input) :
                  InRange(LookupCell(1, i))
                  <=> LET r == apply(requant, input[i]).value
                      IN  r >= -(B \div 2) /\ r <= (B \div 2) - 1
           /\ \A c \in 1..Len(ret.lookups_field) : \A i \in 1..rows :
                  ret.lookups_field[c][i] = ToField(LookupCell(c, i))

\* a padded tensor with one element above and one below the output range
C9_Witness ==
    /\ pc = "lookup_witness" /\ ret.status = "Ok" /\ InputsNonNegative
    /\ Len(input) = 3
    /\ \E i \in 1..Len(input) : LookupCell(1, i) >= requant.after_range
    /\ \E i \in 1..Len(input) : LookupCell(1, i) < 0
    /\ \E i \in 1..Len(input) : LookupCell(Len(ret.lookups_field), i) > 0

\* C10 (as stated): apply(e) is floor(e / 2^right_shift).
C10_ShiftEquivalenceAsStated ==
    (pc = "op" /\ ret.status = "Ok")
    => \A i \in 1..Len(input) :
           ret.data[i] = input[i] \div Pow2(requant.right_shift)

\* C10 (amended): apply(e) is floor(e / 2^right_shift) when range << 1 is a
\* multiple of 2^right_shift, and floor(e / 2^right_shift) or that plus one
\* otherwise.
C10_ShiftEquivalence ==
    (pc = "op" /\ InputsNonNegative)
    => /\ ret.status = "Ok"
       /\ \A i \in 1..Len(input) :
              LET f == input[i] \div Pow2(requant.right_shift)
              IN  /\ ret.data[i] \in {f, f + 1}
                  /\ (MaxBit % Pow2(requant.right_shift) = 0) => ret.data[i] = f

C10_Witness ==
    /\ pc = "op" /\ ret.status = "Ok"
    /\ MaxBit % Pow2(requant.right_shift) = 0
    /\ requant.right_shift >= 1
    /\ \E i \in 1..Len(input) : input[i] < 0 /\ input[i] % Pow2(requant.right_shift) # 0

(***************************************************************************)
(* Properties of the claim routing (SpecRouting).                          *)
(***************************************************************************)
\* the node claims_for_node was called on
RoutedNode == nodes[ret.node + 1]

\* an output edge references an existing node and one of its inputs, or one of
\* the model's outputs
EdgeIsValid(e) ==
    IF e.node # None
    THEN /\ e.node[1] \in 0..(Len(nodes) - 1)
         /\ e.index < Len(nodes[e.node[1] + 1].inputs)
    ELSE e.index < Len(output_claims)

\* every edge of every output wire of the node
EdgesOf(node) ==
    UNION {{node.outputs[w].edges[k] : k \in 1..Len(node.outputs[w].edges)}
           : w \in 1..Len(node.outputs)}

\* claims_by_node has the entry of every node an output edge leads to
DownstreamPopulated(node) ==
    \A e \in EdgesOf(node) : e.node # None => e.node[1] \in DOMAIN claims_by_node

SingleConsumer(node) == \A w \in 1..Len(node.outputs) : Len(node.outputs[w].edges) = 1

\* C4 (as stated): on a graph whose output edges are all valid, with a fully
\* populated claims_by_node and output_claims, claims_for_node returns Ok.
C4_RoutingTotalAsStated ==
    (pc = "claims_for_node"
     /\ (\A e \in EdgesOf(RoutedNode) : EdgeIsValid(e))
     /\ DownstreamPopulated(RoutedNode))
    => ret.status = "Ok"

\* C4 (amended): the same, for a node each of whose output wires has exactly
\* one edge; the result then holds one claim per output wire.
C4_RoutingTotal ==
    (pc = "claims_for_node"
     /\ (\A e \in EdgesOf(RoutedNode) : EdgeIsValid(e))
     /\ DownstreamPopulated(RoutedNode)
     /\ SingleConsumer(RoutedNode))
    => /\ ret.status = "Ok"
       /\ Len(ret.claims) = Len(RoutedNode.outputs)

\* two wires, one to the other node's last input and one to the model's last output
C4_Witness ==
    /\ pc = "claims_for_node" /\ ret.status = "Ok"
    /\ Len(ret.claims) = 2
    /\ ret.claims[1] = InputClaim(1, MaxArity - 1)
    /\ ret.claims[2] = OutputClaim(Len(output_claims) - 1)

\* the edge's claim can be fetched: the Err branches of claims_for_node do not apply
EdgeResolves(e) ==
    IF e.node # None
    THEN e.node[1] \in DOMAIN claims_by_node /\ e.index < Len(claims_by_node[e.node[1]])
    ELSE e.index < Len(output_claims)

\* the nodes with an input edge from the model's inputs
ModelInputNodes ==
    {n \in 0..(Len(nodes) - 1) :
        \E i \in 1..Len(nodes[n + 1].inputs) : nodes[n + 1].inputs[i].node = None}

\* C5: input_claims returns Ok with exactly k claims, the j-th being the claim of
\* an input edge of model-input index j, if and only if the model-input indices
\* are exactly {0..k-1} with k >= 1 and every node with such an edge has an entry
\* in claims_by_node; otherwise it returns Err.
C5_InputClaimsComplete ==
    pc = "input_claims"
    => LET S == {x \in 0..MaxArity :
                    \E n \in 0..(Len(nodes) - 1) : \E i \in 1..Len(nodes[n + 1].inputs) :
                        nodes[n + 1].inputs[i] = EdgeNewAtEdge(x)}
           k == Cardinality(S)
       IN  /\ ret.status \in {"Ok", "Err"}
           /\ ret.status = "Ok"
              <=> (k >= 1 /\ S = 0..(k - 1) /\ ModelInputNodes \subseteq DOMAIN claims_by_node)
           /\ ret.status = "Ok"
              => /\ Len(ret.claims) = k
                 /\ \A j \in 1..k :
                        \E n \in ModelInputNodes : \E i \in 1..Len(nodes[n + 1].inputs) :
                            /\ nodes[n + 1].inputs[i] = EdgeNewAtEdge(j - 1)
                            /\ ret.claims[j] = claims_by_node[n][i]

\* two nodes share the model's inputs 0 and 1, scanned last node first
C5_Witness ==
    /\ pc = "input_claims" /\ ret.status = "Ok"
    /\ Len(nodes) = 2 /\ ret.order = <<1, 0>>
    /\ ret.claims = <<InputClaim(1, 0), InputClaim(0, 0)>>

\* C6 (as stated): a node with an output wire whose number of edges is not one
\* makes claims_for_node fail its assertion.
C6_FanOutRejectedAsStated ==
    (pc = "claims_for_node" /\ ~SingleConsumer(RoutedNode))
    => ret.status = "Panic"

\* C6 (amended): such a node never gets a result: claims_for_node fails its
\* assertion at the first such wire, unless the single edge of an earlier wire
\* has no claim, in which case it returns that Err without reaching the assertion.
C6_FanOutRejected ==
    (pc = "claims_for_node" /\ ~SingleConsumer(RoutedNode))
    => LET first == SetMin({w \in 1..Len(RoutedNode.outputs) :
                               Len(RoutedNode.outputs[w].edges) # 1})
       IN  /\ ret.claims = <<>>
           /\ ret.status =
                  IF \A v \in 1..(first - 1) : EdgeResolves(RoutedNode.outputs[v].edges[1])
                  THEN "Panic" ELSE "Err"

\* the first wire's edge resolves and the second wire has two resolvable edges:
\* no edge is picked
C6_Witness ==
    /\ pc = "claims_for_node" /\ ret.status = "Panic"
    /\ Len(RoutedNode.outputs) = 2
    /\ Len(RoutedNode.outputs[1].edges) = 1
    /\ Len(RoutedNode.outputs[2].edges) = 2
    /\ \A e \in EdgesOf(RoutedNode) : EdgeResolves(e)

(***************************************************************************)
(* Properties of the proving pipeline, checked under SpecProof.            *)
(***************************************************************************)
\* a requant context was handed a requant proof of the stream together with
\* the downstream claim the proof was made for, and the Range challenges exist
HonestVerification ==
    /\ pc = "verify"
    /\ ret.ctx.kind = "Requant"
    /\ ret.proof.kind = "Requant"
    /\ ret.last = last_claim
    /\ verifier.challenge_storage = Some({"Range"})

\* C3: when prove_step succeeded on the downstream claim L and pushed a
\* RequantProof, verify_requant on that proof with the same L succeeds and
\* returns the claim prove_step returned: the same point and the same eval.
C3_RoundTrip ==
    HonestVerification =>
        /\ ret.status = "Ok"
        /\ Len(ret.claims) = 1
        /\ ret.claims[1].point = claims_by_node[prover.proofs[1].id][1].point
        /\ ret.claims[1].eval = claims_by_node[prover.proofs[1].id][1].eval

C3_Witness ==
    /\ HonestVerification
    /\ ret.status = "Ok"
    /\ Len(input) = 2
    /\ num_columns(requant) = 3
    /\ ret.claims[1].eval # ret.proof.lookup.output_claims[1].eval

\* C7: LayerCtx::verify on a Dense, Convolution, Activation, Requant or Pooling
\* context given a proof of another variant returns Err and leaves the
\* verifier's transcript, challenge storage and witness claims as they were.
C7_VariantMismatch ==
    [][(/\ pc' = "verify"
        /\ ret'.ctx.kind \in ProvableKinds
        /\ ret'.proof.kind # ret'.ctx.kind)
       => (/\ ret'.status = "Err"
           /\ verifier'.transcript = verifier.transcript
           /\ verifier'.challenge_storage = verifier.challenge_storage
           /\ verifier'.witness_claims = verifier.witness_claims)]_vars

C7_Witness ==
    /\ pc = "verify"
    /\ ret.ctx.kind = "Requant"
    /\ ret.proof.kind = "Dense"
    /\ ret.status = "Err"
    /\ verifier.transcript = <<>>
    /\ verifier.witness_claims = <<>>

(***************************************************************************)
(* Further properties of the arithmetic, checked under Spec.               *)
(***************************************************************************)
\* the value the source's formula gives for e, written out
Unclamped(e) == ((e + MaxBit) \div Pow2(requant.right_shift))
                - (MaxBit \div Pow2(requant.right_shift))

\* C11 (as stated): op returns a tensor of the input's shape holding the
\* unclamped values, for every input.
C11_TensorOpAsStated ==
    pc = "op"
    => /\ ret.status = "Ok"
       /\ ret.shape = Len(input)
       /\ \A i \in 1..Len(input) : ret.data[i] = Unclamped(input[i])

\* C11 (amended): when every element satisfies e + (range << 1) >= 0, op
\* returns a tensor of the input's shape whose i-th element is the unclamped
\* value, out-of-range results included, these being only counted; a second
\* call returns the same tensor.  With an element below -(range << 1) it aborts.
C11_TensorOp ==
    /\ [](pc = "op"
          => IF InputsNonNegative
             THEN /\ ret.status = "Ok"
                  /\ ret.shape = Len(input)
                  /\ Len(ret.data) = Len(input)
                  /\ \A i \in 1..Len(input) : ret.data[i] = Unclamped(input[i])
                  /\ ret.not_ok_count =
                         Cardinality({i \in 1..Len(input) :
                                         Unclamped(input[i]) < QuantMin
                                         \/ Unclamped(input[i]) > QuantMax})
             ELSE ret.status = "Panic")
    /\ [][(pc = "op" /\ pc' = "op") => ret' = ret]_vars

\* a tensor with a result below and a result above the quantized range
C11_Witness ==
    /\ pc = "op" /\ ret.status = "Ok"
    /\ Len(input) = 3
    /\ \E i \in 1..Len(input) : ret.data[i] < QuantMin
    /\ \E i \in 1..Len(input) : ret.data[i] > QuantMax
    /\ ret.not_ok_count = 2

(***************************************************************************)
(* Further properties of the proving pipeline, checked under SpecProof.    *)
(***************************************************************************)
\* C12: a prove_step that returns Err leaves the proof stream (and the witness
\* commitment's claims) as they were; one that returns Ok has pushed exactly one
\* LayerProof::Requant under the node's id and added exactly one claim to the
\* witness commitment under the layer's poly_id.
C12_NoPartialProofs ==
    [][pc' = "prove_step"
       => IF ret'.status = "Ok"
          THEN /\ Len(prover'.proofs) = Len(prover.proofs) + 1
               /\ SubSeq(prover'.proofs, 1, Len(prover.proofs)) = prover.proofs
               /\ prover'.proofs[Len(prover'.proofs)].id = ret'.id
               /\ prover'.proofs[Len(prover'.proofs)].proof.kind = "Requant"
               /\ Len(prover'.witness_claims) = Len(prover.witness_claims) + 1
               /\ SubSeq(prover'.witness_claims, 1, Len(prover.witness_claims))
                      = prover.witness_claims
               /\ prover'.witness_claims[Len(prover'.witness_claims)][1]
                      = step_info(requant, ret'.id, Len(input)).poly_id
          ELSE /\ ret'.status = "Err"
               /\ prover'.proofs = prover.proofs
               /\ prover'.witness_claims = prover.witness_claims]_vars

\* the last fallible step failed: LogUp and same-poly have absorbed into the
\* transcript and nothing was pushed
C12_Witness ==
    /\ pc = "prove_step" /\ ret.status = "Err"
    /\ Len(prover.transcript) = 2
    /\ prover.proofs = <<>>
    /\ prover.witness_claims = <<>>
    /\ ret.id \in DOMAIN gen.lookups_no_challenges

\* C13 (as stated): the second claim both sides add to the same-poly accumulator
\* is (p, c[0] - after_range / 2) for the first LogUp column claim (p, c[0]):
\* on the prover's side it is the second accumulated claim of the pushed proof,
\* and the verifier accepts exactly the proofs accumulated from that claim.
C13_CorrectedClaim ==
    (pc \in {"prove_step", "verify"} /\ prover.proofs # <<>>)
    => LET proof == prover.proofs[1].proof
           first_claim == proof.lookup.output_claims[1]
       IN  /\ Len(proof.io_accumulation.claims) = 2
           /\ proof.io_accumulation.claims[1] = last_claim
           /\ proof.io_accumulation.claims[2].point = first_claim.point
           /\ proof.io_accumulation.claims[2].eval
                  = FSub(first_claim.eval, FromU64(requant.after_range \div 2))

(***************************************************************************)
(* The two decompositions compared, checked under Spec.                    *)
(***************************************************************************)
\* C14 (as stated): whenever prep_for_requantize returns, its columns and the
\* field columns of lookup_witness on the same input are equally many, agree on
\* the chunk columns 1..K-1, and differ on column 0 by after_range / 2 only.
C14_VariantsAgree ==
    (pc = "prep_for_requantize" /\ ret.status = "Ok" /\ InputsNonNegative)
    => LET lw == lookup_witness(requant, input, debug_assertions)
       IN  /\ lw.status = "Ok"
           /\ Len(lw.lookups_field) = Len(ret.mle_evals)
           /\ \A c \in 2..Len(ret.mle_evals) : ret.mle_evals[c] = lw.lookups_field[c]
           /\ \A i \in 1..Len(input) :
                  lw.lookups_field[1][i]
                      = FAdd(ret.mle_evals[1][i], FromU64(requant.after_range \div 2))

\* C15 (as stated): the closing assertion of prep_for_requantize holds: the call
\* returns in a build with debug assertions, recombine_claims of the column
\* values just produced for each element being the element's field lift and the
\* discarded remainder being used up.
C15_ClosingAssertion ==
    (pc = "prep_for_requantize" /\ requant.right_shift >= 1 /\ InputsNonNegative)
    => /\ ret.status = "Ok"
       /\ \A i \in 1..Len(input) :
              /\ recombine_claims(requant, RowOf(ret.mle_evals, i)) = ToField(input[i])
              /\ PrepRemainder(requant, input[i]) = 0

\* transcript s is an initial part of transcript t: entry by entry the same
\* operation absorbing the same data
IsPrefix(s, t) ==
    /\ Len(s) <= Len(t)
    /\ \A k \in 1..Len(s) : s[k].op = t[k].op /\ s[k].data = t[k].data

\* C16: the verifier of a requant layer absorbs into its transcript what the
\* prover absorbed, in the prover's order: the LogUp data, then the same-poly
\* data.  A verification that stops early has absorbed an initial part of it;
\* an accepted one has absorbed all of it, was accumulated from the downstream
\* claim followed by the corrected claim, and has added to the witness
\* commitment the claim the prover added.
C16_MirroredOrder ==
    (pc = "verify" /\ ret.ctx.kind = "Requant" /\ ret.proof.kind = "Requant")
    => /\ IsPrefix(verifier.transcript, prover.transcript)
       /\ [k \in 1..Len(prover.transcript) |-> prover.transcript[k].op]
              = <<"logup", "same_poly">>
       /\ HonestVerification => ret.status = "Ok"
       /\ ret.status = "Ok"
          => /\ Len(verifier.transcript) = Len(prover.transcript)
             /\ verifier.witness_claims = prover.witness_claims
             /\ ret.proof.io_accumulation.claims
                    = <<ret.last, CorrectedClaim(ret.proof.lookup.output_claims[1])>>

\* an accepted verification of a two-row layer
C16_Witness ==
    /\ HonestVerification
    /\ ret.status = "Ok"
    /\ Len(input) = 2
    /\ Len(verifier.transcript) = 2
    /\ verifier.transcript[1].op = "logup"
    /\ verifier.transcript[2].op = "same_poly"
    /\ Len(verifier.witness_claims) = 1

\* the number of cells of a column-major cell list that hold v
Occurrences(v, cells) == Cardinality({k \in 1..Len(cells) : cells[k] = v})

\* the nodes whose gen_lookup_witness has returned Ok
WitnessedNodes == DOMAIN gen.lookups_no_challenges

\* what C17 says of the generator state g after n nodes, each with lookup
\* witness w, have contributed
LookupsMerged(g, w, n) ==
    /\ "Range" \in DOMAIN g.lookups
       => /\ g.tables = {"Range"}
          /\ DOMAIN g.lookups = {"Range"}
          /\ \A v \in DOMAIN g.lookups["Range"] \cup
                      {w.lookups[k] : k \in 1..Len(w.lookups)} :
                 /\ v \in DOMAIN g.lookups["Range"]
                 /\ g.lookups["Range"][v] = n * Occurrences(v, w.lookups)
    /\ n > 0
       => /\ "Range" \in g.tables
          /\ "Range" \in DOMAIN g.lookups
          /\ w.status = "Ok"
          /\ Len(w.lookups) = num_columns(requant) * Pow2(ceil_log2(Len(input)))
          /\ Len(g.polys_with_id) = n
          /\ \A id \in DOMAIN g.lookups_no_challenges :
                 /\ Cardinality({k \in 1..Len(g.polys_with_id) :
                                    g.polys_with_id[k][1] = id}) = 1
                 /\ g.lookups_no_challenges[id] = <<w.lookups_field, 1, "Range">>
    /\ \A k \in 1..Len(g.polys_with_id) :
           g.polys_with_id[k][1] \in DOMAIN g.lookups_no_challenges

\* C17: after gen_lookup_witness has run for a set of requant nodes, Range is
\* a registered table, the Range multiplicity of every value v is the number
\* of lookup cells holding v summed over those nodes (all K * 2^num_vars cells
\* of each, padding included), and every node has exactly one
\* lookups_no_challenges entry and one polys_with_id entry under its id.
C17_LookupMerging ==
    pc = "gen_lookup_witness"
    => LookupsMerged(gen, lookup_witness(requant, input, debug_assertions),
                     Cardinality(WitnessedNodes))

\* two nodes have contributed and some value was looked up more than once by
\* each of them
C17_Witness ==
    /\ pc = "gen_lookup_witness"
    /\ ret.status = "Ok"
    /\ Cardinality(WitnessedNodes) = 2
    /\ \E v \in DOMAIN gen.lookups["Range"] : gen.lookups["Range"][v] >= 4

\* the claim an output edge refers to
ClaimOfEdge(e) ==
    IF e.node # None THEN claims_by_node[e.node[1]][e.index + 1]
    ELSE output_claims[e.index + 1]

\* C18: for a node each of whose output wires has exactly one edge,
\* claims_for_node returns Ok with one claim per output wire, in wire order,
\* the claim of wire w being the one its edge refers to, when every edge has a
\* claim; otherwise it returns Err with no claims.  It never aborts.
C18_RoutingResult ==
    (pc = "claims_for_node" /\ SingleConsumer(RoutedNode))
    => IF \A w \in 1..Len(RoutedNode.outputs) :
              EdgeResolves(RoutedNode.outputs[w].edges[1])
       THEN /\ ret.status = "Ok"
            /\ Len(ret.claims) = Len(RoutedNode.outputs)
            /\ \A w \in 1..Len(RoutedNode.outputs) :
                   ret.claims[w] = ClaimOfEdge(RoutedNode.outputs[w].edges[1])
       ELSE /\ ret.status = "Err"
            /\ ret.claims = <<>>

\* a node whose first wire feeds another node and whose second wire is a model
\* output, routed to two different claims
C18_Witness ==
    /\ pc = "claims_for_node"
    /\ SingleConsumer(RoutedNode)
    /\ Len(RoutedNode.outputs) = 2
    /\ RoutedNode.outputs[1].edges[1].node # None
    /\ RoutedNode.outputs[2].edges[1].node = None
    /\ ret.status = "Ok"
    /\ ret.claims[1] # ret.claims[2]

\* the evaluations a padding claim may carry: that of an all-zero column, and
\* a non-zero one
PaddingEvals == {FromU64(0), FromU64(1)}

\* C19 (as stated): a trailing padding claim after the K column claims of an
\* element does not change what recombine_claims returns.
C19_PaddingIgnored ==
    (pc = "lookup_witness" /\ ret.status = "Ok" /\ InputsNonNegative)
    => \A i \in 1..Len(input) : \A padding \in PaddingEvals :
           recombine_claims(requant, Append(RowOf(ret.lookups_field, i), padding))
               = recombine_claims(requant, RowOf(ret.lookups_field, i))

\* the requant node built by Node::new
BuiltNode == nodes[1]

\* C20 (as stated): a requant node built by Node::new has exactly one input
\* and exactly one output.
C20_RequantArityAsStated ==
    pc \in {"node_new", "evaluate"}
    => Len(BuiltNode.inputs) = 1 /\ Len(BuiltNode.outputs) = 1

\* C20 (amended): Node::new gives a requant node as many (edge-less) output
\* wires as it has inputs, whatever their number; evaluate returns Ok, with one
\* output tensor, only for a node with exactly one input and Err for any
\* other; gen_lookup_witness returns Err and records nothing for a step with
\* another number of inputs; a successful prove leaves exactly one claim for
\* the node.
C20_RequantArity ==
    /\ pc \in {"node_new", "evaluate"}
       => /\ Len(BuiltNode.outputs) = Len(BuiltNode.inputs)
          /\ \A w \in 1..Len(BuiltNode.outputs) : BuiltNode.outputs[w].edges = <<>>
    /\ pc = "evaluate"
       => IF Len(BuiltNode.inputs) = 1
          THEN ret.status = "Ok" /\ ret.outputs = <<op(requant, input).data>>
          ELSE ret.status = "Err" /\ ret.outputs = <<>>
    /\ pc = "gen_lookup_witness"
       => /\ ret.status = "Ok" => ret.num_inputs = 1
          /\ ret.num_inputs # 1
             => ret.status = "Err" /\ ret.id \notin DOMAIN gen.lookups_no_challenges
    /\ (pc = "prove_step" /\ ret.status = "Ok")
       => Len(claims_by_node[ret.id]) = 1

\* a requant node with two inputs and two outputs was built, and rejected by
\* evaluate
C20_Witness ==
    /\ pc = "evaluate"
    /\ Len(BuiltNode.inputs) = 2
    /\ Len(BuiltNode.outputs) = 2
    /\ ret.status = "Err"

\* the scan positions <<k, i>> (k-th node of the iteration order, its i-th
\* input) whose edge is the model input x
ScannedAt(x) ==
    {pos \in (1..Len(ret.order)) \X (1..MaxArity + 1) :
        /\ pos[2] <= Len(nodes[ret.order[pos[1]] + 1].inputs)
        /\ nodes[ret.order[pos[1]] + 1].inputs[pos[2]] = EdgeNewAtEdge(x)}

\* the position scanned last among those of model input x
LastScanned(x) ==
    CHOOSE pos \in ScannedAt(x) :
        \A other \in ScannedAt(x) :
            \/ other[1] < pos[1]
            \/ other[1] = pos[1] /\ other[2] <= pos[2]

\* the model-input indices that occur on some input edge
ModelInputIndices == {x \in 0..MaxArity : ScannedAt(x) # {}}

\* some model-input index occurs on two input edges
DuplicateModelInput == \E x \in ModelInputIndices : Cardinality(ScannedAt(x)) >= 2

\* C21: two input edges with the same model-input index are not detected by
\* input_claims.  Its outcome is decided as without duplicates (Ok exactly when
\* the distinct indices are 0..k-1, k >= 1, and every node with a model-input
\* edge has claims; Err otherwise), and on Ok it returns one claim per distinct
\* index, the claim of the edge of that index that was scanned last.
C21_DuplicateInputsUndetected ==
    (pc = "input_claims" /\ DuplicateModelInput)
    => LET k == Cardinality(ModelInputIndices)
       IN  /\ ret.status \in {"Ok", "Err"}
           /\ ret.status = "Ok"
              <=> (ModelInputIndices = 0..(k - 1)
                   /\ ModelInputNodes \subseteq DOMAIN claims_by_node)
           /\ ret.status = "Ok"
              => /\ Len(ret.claims) = k
                 /\ \A x \in ModelInputIndices :
                        ret.claims[x + 1]
                            = claims_by_node[ret.order[LastScanned(x)[1]]][LastScanned(x)[2]]

\* two nodes both read model input 0, and scanning them in the opposite order
\* returns a different claim for it
C21_Witness ==
    /\ pc = "input_claims" /\ ret.status = "Ok"
    /\ Len(nodes) = 2
    /\ Cardinality(ScannedAt(0)) >= 2
    /\ LET reversed == <<ret.order[2], ret.order[1]>>
           other == input_claims([k \in 1..2 |-> <<reversed[k], nodes[reversed[k] + 1]>>],
                                 claims_by_node)
       IN  other.status = "Ok" /\ other.claims[1] # ret.claims[1]

\* the build wraps on overflow and the chunk width is one bit
WrapsToOneColumn == ~debug_assertions /\ ceil_log2(requant.after_range) = 1

====
